---- MODULE Spec2Model ----
(***************************************************************************)
(* The self-healing test execution engine of src/backend_1.py: the         *)
(* /run_script handler (run_script), its strict-mode runner                *)
(* (run_standard_test), the failure context extractor                      *)
(* (extract_failing_context), the script instrumentation                   *)
(* (add_dom_dumping_to_script), the script sanitiser                       *)
(* (sanitize_playwright_script) and the final reporting.                   *)
(*                                                                         *)
(* Spec and LiveSpec are one invocation of the handler, PureSpec is the    *)
(* pure functions called on their own, ConcSpec is two invocations served  *)
(* at the same time.                                                       *)
(*                                                                         *)
(* Text (scripts, commands, trace lines) is a sequence of tokens; a token  *)
(* is an indivisible run of characters ("page", ".a", " ", "\n", "#"), and *)
(* lengths and offsets of a text are counted in tokens.                    *)
(***************************************************************************)
EXTENDS Integers, Sequences, FiniteSets, TLC

VARIABLES
    pc,                  \* position of the handler
    execution_mode,      \* the request's execution_mode ("absent": key not sent)
    manual_retries,      \* request parameter, as parsed by int()
    max_healing_retries, \* request parameter, as parsed by int()
    script_content,      \* the live (un-instrumented) script text
    attempt,             \* loop variable of `for attempt in range(total_attempts)`
    result,              \* the last subprocess.run result (id 0: unbound)
    healing_attempts,    \* the list returned as the audit trail
    dom_file,            \* dom_on_failure.html: "none" (missing or empty), or its
                         \* content is "fresh" (of the last run) or "stale"
    report_file,         \* report.json: "none" (missing), or "fresh" or "stale"
    runs,                \* history: every execution of the test runner, in order:
                         \* the live script, the variable whose text was written
                         \* to test_script.py, and the return code
    advisor_calls,       \* history: number of get_ai_fix_for_selector calls
    waits,               \* history: number of time.sleep(manual_wait) calls
    stop,                \* why the loop was left
    response,            \* the value returned to the caller
    temp_dir,            \* the run's temporary directory: "absent" (not created
                         \* yet), "present" or "removed"
    failing_command,     \* the command last extracted from a trace (<<>>: None)
    last_session,        \* history: the per-test outcomes of the last pytest
                         \* session, fixed when its output is read for the result
    call,                \* a call of one of the pure functions: its name, its
                         \* argument and what it returned
    tmp_root,            \* the system's temporary directory: for every name,
                         \* whether a directory of that name exists, and its
                         \* test_script.py
    invocations          \* concurrent /run_script invocations: the locals of each

\* the variables of one /run_script invocation
handler == <<pc, execution_mode, manual_retries, max_healing_retries, script_content,
             attempt, result, healing_attempts, dom_file, report_file, runs,
             advisor_calls, waits, stop, response, temp_dir, failing_command,
             last_session>>

\* the variables the single invocation does not touch
aux == <<call, tmp_root, invocations>>

vars == <<handler, aux>>

----------------------------------------------------------------------------
(* Bounds of the model *)

MaxManual == 2
MaxHealing == 2
MaxFrames == 2
MaxPieces == 4
MaxFuncs == 2
MaxPatches == 1

----------------------------------------------------------------------------
(* Text helpers: Python str operations on token sequences *)

WS == {" ", "\t"}

\* s[i:i+len(sub)] == sub
OccursAt(s, sub, i) ==
    /\ i >= 1
    /\ i + Len(sub) - 1 <= Len(s)
    /\ \A k \in 1..Len(sub) : s[i + k - 1] = sub[k]

\* `sub in s`
Contains(s, sub) == \E i \in 1..(Len(s) + 1) : OccursAt(s, sub, i)

\* str.find, 1-based; 0 when absent
Find(s, sub) ==
    IF Contains(s, sub)
    THEN CHOOSE i \in 1..(Len(s) + 1) :
            OccursAt(s, sub, i) /\ \A j \in 1..(i - 1) : ~OccursAt(s, sub, j)
    ELSE 0

\* str.replace(old, new, 1)
ReplaceFirst(s, old, new) ==
    LET i == Find(s, old) IN
    IF i = 0 THEN s
    ELSE SubSeq(s, 1, i - 1) \o new \o SubSeq(s, i + Len(old), Len(s))

RECURSIVE LStrip(_, _)
\* str.lstrip(chars)
LStrip(s, chars) ==
    IF s # <<>> /\ Head(s) \in chars THEN LStrip(Tail(s), chars) ELSE s

RECURSIVE RStrip(_, _)
\* str.rstrip(chars)
RStrip(s, chars) ==
    IF s # <<>> /\ s[Len(s)] \in chars
    THEN RStrip(SubSeq(s, 1, Len(s) - 1), chars)
    ELSE s

\* t.startswith(s)
IsPrefixOf(s, t) == Len(s) <= Len(t) /\ SubSeq(t, 1, Len(s)) = s

\* str.strip()
Strip(s) == RStrip(LStrip(s, WS), WS)

RECURSIVE SplitLines(_)
\* str.split("\n")
SplitLines(s) ==
    IF \E i \in 1..Len(s) : s[i] = "\n"
    THEN LET i == CHOOSE k \in 1..Len(s) :
                     s[k] = "\n" /\ \A j \in 1..(k - 1) : s[j] # "\n"
         IN <<SubSeq(s, 1, i - 1)>> \o SplitLines(SubSeq(s, i + 1, Len(s)))
    ELSE <<s>>

\* str.lower() on the tokens an output text is made of
Lower(tok) ==
    CASE tok = "TimeoutError" -> "timeouterror"
      [] tok = "AssertionError" -> "assertionerror"
      [] tok = "ImportError" -> "importerror"
      [] OTHER -> tok

LowerText(s) == [i \in 1..Len(s) |-> Lower(s[i])]

\* all sequences over S of length at most n
SeqsUpTo(S, n) == UNION {[1..k -> S] : k \in 0..n}

----------------------------------------------------------------------------
(* Inputs of a run *)

CmdA == <<"page", ".a">>
CmdB == <<"page", ".b">>
CmdC == <<"page", ".c">>
CmdD == <<"page", ".d">>

\* def test_x(page):        def test_y(page):
\*     # open                   page.a.b
\*     page.a                   # close
\*     page.b                   page.b
\*     page.a
ScriptX ==
    <<"def test_x(page):", "\n",
      " ", "#", " ", "open", "\n",
      " ", "page", ".a", "\n",
      " ", "page", ".b", "\n",
      " ", "page", ".a">>
ScriptY ==
    <<"def test_y(page):", "\n",
      " ", "page", ".a", ".b", "\n",
      " ", "#", " ", "close", "\n",
      " ", "page", ".b">>

Scripts == {ScriptX, ScriptY}

\* def test_x(page):        def test_y(page):        # open
\*     page.b                   page.a               ## close
\*     # open                   # open               def test_y(page):
\*     page.a                   page.a                   page.a
\*     # close
\*     page.b
\*     page.a
ScriptV ==
    <<"def test_x(page):", "\n",
      " ", "page", ".b", "\n",
      " ", "#", " ", "open", "\n",
      " ", "page", ".a", "\n",
      " ", "#", " ", "close", "\n",
      " ", "page", ".b", "\n",
      " ", "page", ".a">>
ScriptW ==
    <<"def test_y(page):", "\n",
      " ", "page", ".a", "\n",
      " ", "#", " ", "open", "\n",
      " ", "page", ".a">>
ScriptU ==
    <<"#", " ", "open", "\n",
      "#", "#", " ", "close", "\n",
      "def test_y(page):", "\n",
      " ", "page", ".a">>

\* scripts the intent of a command is looked up in
IntentScripts == Scripts \cup {ScriptV, ScriptW, ScriptU}

\* the headers line 490's pattern, def (test_\w+)\(page\): , matches
PageOnlyDefs == {"def test_x(page):", "def test_y(page):"}

\* the header of a test function that takes a second fixture
FixtureDef == "def test_z(page, browser):"

\* the `def test_...` header tokens
TestDefs == PageOnlyDefs \cup {FixtureDef}

\* request values of execution_mode; "Full_Flow" is a value that differs from
\* "full_flow" in case only
ExecutionModes == {"full_flow", "specific_tests", "Full_Flow", "absent"}

\* combined stdout+stderr texts of a run, by the error they name
OutputTexts == {<<"E", "TimeoutError">>, <<"E", "AssertionError">>, <<"E", "ImportError">>}

\* a frame of the trace: its header form and the source line printed under it
\*   "File":  File "/tmp/x/test_script.py", line 12, in test_x
\*   "short": test_script.py:12: in test_x
\* page.a occurs in the scripts, page.c in none; `raise e` is the wrapper's line
Frames ==
    [hdr : {"File", "short"}, src : {<<" ", "page", ".a">>, <<" ", "page", ".c">>}]
        \cup {[hdr |-> "File", src |-> <<" ", "raise", " ", "e">>]}

Tracebacks == SeqsUpTo(Frames, MaxFrames)

\* answers of the language model, as parsed by get_ai_fix_for_selector:
\* None (no JSON, malformed JSON, exception), a JSON object without a usable
\* fixed_command, or a fixed command
NoFix == [parsed |-> FALSE, fixed_command |-> <<>>]

\* a fixed_command that is not a string (a JSON number, list or object)
NonString == <<"<non-str>">>

AdvisorAnswers ==
    {NoFix, [parsed |-> TRUE, fixed_command |-> <<>>]}
        \cup {[parsed |-> TRUE, fixed_command |-> c] : c \in {CmdA, CmdD, NonString}}

\* per-test outcomes of a pytest session
Outcomes == {"passed", "failed", "skipped", "error"}
VerboseWords == {"PASSED", "FAILED", "SKIPPED", "ERROR"}

\* the outcome words of per_test_pattern (lines 743 and 1030)
PerTestWords == VerboseWords \cup {"XPASS", "XFAIL"}

----------------------------------------------------------------------------
(* Failure Classifier: src/backend_1.py:669-678 *)

RepairableSignatures ==
    {"timeouterror", "locator expected to be visible", "strict mode violation",
     "strict mode error", "attributeerror", "nameerror", "assertionerror"}

\* a classifier that takes every failure text for repairable
IsRepairableLoose(traceback) == Len(traceback) > 0

\* some known signature occurs in traceback.lower()
IsRepairable(traceback) ==
    \E i \in 1..Len(traceback) : LowerText(traceback)[i] \in RepairableSignatures

----------------------------------------------------------------------------
(* Failure Context Extractor: extract_failing_context *)

\* group 1 of `\n\s*(page..*)` on the line after a frame header: <<cmd>>, or <<>>
PageGroup(src) ==
    LET t == LStrip(src, WS) IN
    IF Len(t) >= 2 /\ t[1] = "page" THEN <<t>> ELSE <<>>

RECURSIVE FindAll(_, _)
\* re.findall of the pattern with header form hdr
FindAll(tb, hdr) ==
    IF tb = <<>> THEN <<>>
    ELSE (IF Head(tb).hdr = hdr THEN PageGroup(Head(tb).src) ELSE <<>>)
            \o FindAll(Tail(tb), hdr)

\* the matches the function works with: the primary pattern's, else the fallback's
TraceMatches(tb) ==
    IF FindAll(tb, "File") # <<>> THEN FindAll(tb, "File") ELSE FindAll(tb, "short")

PerformTheAction(cmd) == <<"Perform the action: ">> \o cmd
NoIntentFound == <<"No specific user intent comment found.">>

\* a lookup that starts from the last line that holds the command
IntentOfLastOccurrence(cmd, script) ==
    LET script_lines == SplitLines(script)
        hits == {i \in 1..Len(script_lines) : Strip(script_lines[i]) = cmd}
    IN
    IF hits = {} THEN PerformTheAction(cmd)
    ELSE LET i == CHOOSE k \in hits : \A m \in hits : m <= k
             comments == {j \in 1..(i - 1) :
                             LET l == Strip(script_lines[j]) IN
                             l # <<>> /\ Head(l) = "#"}
         IN
         IF comments = {} THEN PerformTheAction(cmd)
         ELSE LET j == CHOOSE k \in comments : \A m \in comments : m <= k
              IN Strip(LStrip(Strip(script_lines[j]), {"#", " "}))

\* lines 576-585: the intent comment of cmd in the script
IntentOf(cmd, script) ==
    LET script_lines == SplitLines(script)
        hits == {i \in 1..Len(script_lines) : Strip(script_lines[i]) = cmd}
    IN
    IF hits = {} THEN PerformTheAction(cmd)
    ELSE LET i == CHOOSE k \in hits : \A m \in hits : k <= m
             comments == {j \in 1..(i - 1) :
                             LET l == Strip(script_lines[j]) IN
                             l # <<>> /\ Head(l) = "#"}
         IN
         IF comments = {} THEN PerformTheAction(cmd)
         ELSE LET j == CHOOSE k \in comments : \A m \in comments : m <= k
              IN Strip(LStrip(Strip(script_lines[j]), {"#", " "}))

\* an extractor that takes the first match, the outermost frame
FirstMatch(tb) ==
    LET matches == TraceMatches(tb) IN
    IF matches = <<>> THEN <<>> ELSE Strip(matches[1])

\* line 575: matches[-1].strip(); None (the empty command) without a match
LastMatch(tb) ==
    LET matches == TraceMatches(tb) IN
    IF matches = <<>> THEN <<>> ELSE Strip(matches[Len(matches)])

\* the commands the traces of a run can name, and a trace for each of them
FailingCommands == {LastMatch(tb) : tb \in Tracebacks}
TraceNaming == [cmd \in FailingCommands |-> CHOOSE tb \in Tracebacks : LastMatch(tb) = cmd]

\* (failing_command, user_intent); None is the empty command
extract_failing_context(tb, original_script) ==
    LET cmd == LastMatch(tb) IN
    IF cmd = <<>>
    THEN [failing_command |-> <<>>, user_intent |-> NoIntentFound]
    ELSE [failing_command |-> cmd, user_intent |-> IntentOf(cmd, original_script)]

----------------------------------------------------------------------------
(* Script post-processing: sanitize_playwright_script *)

\* In a generated script every ")" is a token of its own, so that `[^)]` is
\* "any token but this one".
Close == ")"
LocatorOpen == "locator("
DefOpen == "def test_a("
UrlContains == <<"expect(page.url", Close, ".to_contain(">>
UrlCompile == <<"expect(page", Close, ".to_have_url(re.compile(">>

\* str.strip() takes these off
Blank == {" ", "\t", "\n", "\r", "    "}

\* the index of the first ")" of s after position i, 0 when there is none
NextClose(s, i) ==
    IF \E k \in (i + 1)..Len(s) : s[k] = Close
    THEN CHOOSE k \in (i + 1)..Len(s) :
            s[k] = Close /\ \A j \in (i + 1)..(k - 1) : s[j] # Close
    ELSE 0

NotLineBreak(tok) == tok \notin {"\n", "\r"}

RECURSIVE FixMultilineLocator(_)
\* lines 124-132: re.sub(r"locator\(([^)]*)\)", ..., flags=re.DOTALL), the match
\* rewritten without its "\n" and "\r"
FixMultilineLocator(s) ==
    IF s = <<>> THEN <<>>
    ELSE LET k == NextClose(s, 1) IN
         IF Head(s) = LocatorOpen /\ k # 0
         THEN <<LocatorOpen>> \o SelectSeq(SubSeq(s, 2, k - 1), NotLineBreak)
                 \o <<Close>> \o FixMultilineLocator(SubSeq(s, k + 1, Len(s)))
         ELSE <<Head(s)>> \o FixMultilineLocator(Tail(s))

RECURSIVE FixExpectPageUrl(_)
\* _fix_expect_page_url: re.sub of expect\(page\.url\)\.to_contain\(([^)]+)\)
\* by expect(page).to_have_url(re.compile(<group 1>))
FixExpectPageUrl(s) ==
    IF s = <<>> THEN <<>>
    ELSE LET k == NextClose(s, Len(UrlContains)) IN
         IF OccursAt(s, UrlContains, 1) /\ k > Len(UrlContains) + 1
         THEN UrlCompile \o SubSeq(s, Len(UrlContains) + 1, k - 1) \o <<Close, Close>>
                 \o FixExpectPageUrl(SubSeq(s, k + 1, Len(s)))
         ELSE <<Head(s)>> \o FixExpectPageUrl(Tail(s))

RECURSIVE Split(_, _)
\* str.split(sep)
Split(s, sep) ==
    IF \E i \in 1..Len(s) : s[i] = sep
    THEN LET i == CHOOSE k \in 1..Len(s) :
                     s[k] = sep /\ \A j \in 1..(k - 1) : s[j] # sep
         IN <<SubSeq(s, 1, i - 1)>> \o Split(SubSeq(s, i + 1, Len(s)), sep)
    ELSE <<s>>

\* str.strip() without arguments
StripBlank(s) == RStrip(LStrip(s, Blank), Blank)

\* a replacement that adds the parameter whether or not it is there
EnsurePageReplAlways(params) == <<DefOpen, "page", ",", " ">> \o params \o <<Close, ":">>

\* _repl of _ensure_page_param on the match <<DefOpen>> \o params \o <<")", ":">>
EnsurePageRepl(params) ==
    LET stripped == StripBlank(params)
        names == Split(stripped, ",")
    IN
    IF stripped = <<>>
    THEN \* func_def.replace("()", "(page)")
         IF params = <<>> THEN <<DefOpen, "page", Close, ":">>
         ELSE <<DefOpen>> \o params \o <<Close, ":">>
    ELSE IF \A i \in 1..Len(names) : StripBlank(names[i]) # <<"page">>
    THEN \* func_def.replace("(", "(page, ", 1)
         <<DefOpen, "page", ",", " ">> \o params \o <<Close, ":">>
    ELSE <<DefOpen>> \o params \o <<Close, ":">>

RECURSIVE EnsurePageParam(_)
\* _ensure_page_param: re.sub of def (test_[\w_]+)\(([^)]*)\):
EnsurePageParam(s) ==
    IF s = <<>> THEN <<>>
    ELSE LET k == NextClose(s, 1) IN
         IF Head(s) = DefOpen /\ k # 0 /\ k < Len(s) /\ s[k + 1] = ":"
         THEN EnsurePageRepl(SubSeq(s, 2, k - 1))
                 \o EnsurePageParam(SubSeq(s, k + 2, Len(s)))
         ELSE <<Head(s)>> \o EnsurePageParam(Tail(s))

\* lines 109-136
sanitize_playwright_script(script) ==
    EnsurePageParam(FixExpectPageUrl(FixMultilineLocator(script)))

\* the pieces generated scripts are put together from
Pieces ==
    {<<LocatorOpen>>, <<Close>>, <<"\n">>, <<" ">>, <<"'a'">>, <<",">>, <<"page">>,
     <<":">>, <<DefOpen>>, UrlContains}

RECURSIVE Joined(_)
\* the scripts made of n pieces
Joined(n) ==
    IF n = 0 THEN {<<>>}
    ELSE {p \o s : p \in Pieces, s \in Joined(n - 1)}

\* the scripts made of at most max pieces
GeneratedScripts(max) == UNION {Joined(n) : n \in 0..max}

----------------------------------------------------------------------------
(* Script instrumentation: add_dom_dumping_to_script *)

\* textwrap.indent's prefix, one level of indentation
Indent4 == "    "

\* the length of the longest prefix of s made of tokens of S
RECURSIVE Span(_, _)
Span(s, S) == IF s # <<>> /\ Head(s) \in S THEN 1 + Span(Tail(s), S) ELSE 0

\* line 502: re.search(r"\n(\s+)", rest): the position of the first "\n" that
\* is followed by whitespace, 0 when there is none
IndentMatch(rest) ==
    LET at == {p \in 1..(Len(rest) - 1) : rest[p] = "\n" /\ rest[p + 1] \in Blank}
    IN IF at = {} THEN 0 ELSE CHOOSE p \in at : \A q \in at : p <= q

RECURSIVE BodyEnd(_, _, _, _)
\* lines 512-524: the loop over lines[1:], from line i on, with cumulative_len
\* at cum; the first line of the body is not counted
BodyEnd(lines, i, cum, base_indent) ==
    IF i > Len(lines) THEN -1
    ELSE IF StripBlank(lines[i]) = <<>>
    THEN BodyEnd(lines, i + 1, cum + Len(lines[i]) + 1, base_indent)
    ELSE IF ~IsPrefixOf(base_indent, lines[i]) THEN cum
    ELSE BodyEnd(lines, i + 1, cum + Len(lines[i]) + 1, base_indent)

RECURSIVE JoinLines(_)
\* "\n".join(lines)
JoinLines(lines) ==
    IF lines = <<>> THEN <<>>
    ELSE IF Len(lines) = 1 THEN lines[1]
    ELSE lines[1] \o <<"\n">> \o JoinLines(Tail(lines))

\* textwrap.indent(text, "    "): the prefix goes before every line that is not
\* all whitespace
TextwrapIndent(text) ==
    LET lines == SplitLines(text) IN
    JoinLines([i \in 1..Len(lines) |->
                  IF StripBlank(lines[i]) = <<>> THEN lines[i]
                  ELSE <<Indent4>> \o lines[i]])

\* lines 529-541
Wrapper(base_indent, func_name, original_body) ==
    <<"\n">> \o base_indent \o <<"try:", "\n">>
      \o TextwrapIndent(RStrip(original_body, {"\n"})) \o <<"\n">>
      \o base_indent \o <<"except Exception as e:", "\n">>
      \o base_indent \o <<Indent4, "print(ERROR in ", func_name, ")", "\n">>
      \o base_indent \o <<Indent4, "try:", "\n">>
      \o base_indent \o <<Indent4, Indent4, "with open(dom_dump_path) as f:", "\n">>
      \o base_indent \o <<Indent4, Indent4, Indent4, "f.write(page.content())", "\n">>
      \o base_indent \o <<Indent4, Indent4, "print(DOM dumped)", "\n">>
      \o base_indent \o <<Indent4, "except Exception as dump_error:", "\n">>
      \o base_indent \o <<Indent4, Indent4, "print(CRITICAL)", "\n">>
      \o base_indent \o <<Indent4, "raise e", "\n">>

\* lines 498-546: the surgery for the header at position h
WrapFunction(script, h) ==
    LET rest == SubSeq(script, h + 1, Len(script))
        p == IndentMatch(rest)
        base_indent == SubSeq(rest, p + 1, p + Span(SubSeq(rest, p + 1, Len(rest)), Blank))
        body_start_idx == h + p + Len(base_indent)
        remainder == SubSeq(script, body_start_idx + 1, Len(script))
        found == BodyEnd(SplitLines(remainder), 2, 0, base_indent)
        body_end_offset == IF found = -1 THEN Len(remainder) ELSE found
        original_body == SubSeq(remainder, 1, body_end_offset)
    IN
    IF p = 0 THEN script
    ELSE SubSeq(script, 1, body_start_idx)
            \o Wrapper(base_indent, script[h], original_body)
            \o SubSeq(remainder, body_end_offset + 1, Len(remainder))

RECURSIVE WrapBackwards(_, _)
\* line 497: the matches from the last to the first
WrapBackwards(script, hs) ==
    IF hs = {} THEN script
    ELSE LET h == CHOOSE k \in hs : \A m \in hs : m <= k
         IN WrapBackwards(WrapFunction(script, h), hs \ {h})

\* an instrumentation that leaves the script as it is
add_dom_dumping_never(script) == script

\* lines 474-548
add_dom_dumping_to_script(script) ==
    WrapBackwards(script, {h \in 1..Len(script) : script[h] \in PageOnlyDefs})

----------------------------------------------------------------------------
(* Retry policy of run_script *)

total_attempts(mr, mhr) == 1 + mr + mhr

\* a loop whose body runs once before its bound is looked at
InRangeAtLeastOnce(a, total) == a = 0 \/ (0 <= a /\ a < total)

\* `attempt in range(total)`
InRange(a, total) == 0 <= a /\ a < total

\* a budget check that lets the last permitted attempt into the repair phase
MaxRetriesReachedLate(a, mr, mhr) == a > mr + mhr

\* line 657
MaxRetriesReached(a, mr, mhr) == a >= mr + mhr

\* the first execution counted among the manual retries
IsManualRetryCountingFirst(a, mr) == a < mr - 1

\* line 663
IsManualRetry(a, mr) == a < mr

\* a loop whose `continue` does not advance the attempt counter
NextAttemptStuck(a) == a

\* the loop variable of the next iteration
NextAttempt(a) == a + 1

\* a runner whose success is not noticed
IsSuccessNever(rc) == FALSE

\* line 652: result.returncode == 0
IsSuccess(rc) == rc = 0

\* an extraction result that is taken for a command even when it is None
CommandLocatedAlways(cmd) == TRUE

\* line 682: `if not failing_command` does not hold
CommandLocated(cmd) == cmd # <<>>

\* a DOM check that lets a missing or empty dump through
DomAvailableAlways(dom_content) == TRUE

\* line 691: `if not dom_content` does not hold
DomAvailable(dom_content) == dom_content # "none"

\* line 712: str.replace accepts only a str as its new value
IsStr(v) == v # NonString

\* line 699: `ai_fix and ai_fix.get("fixed_command")`
HasFix(ai_fix) == ai_fix.parsed /\ ai_fix.fixed_command # <<>>

HealingEntry(a, cmd, fixed, intent) ==
    [attempt |-> a + 1, failing_command |-> cmd,
     fixed_command |-> fixed, user_intent |-> intent]

\* healing_attempts.insert(0, ...)
RecordHealingFirst(list, entry) == <<entry>> \o list

\* line 704: healing_attempts.append(...)
RecordHealing(list, entry) == Append(list, entry)

RECURSIVE ReplaceAll(_, _, _)
\* str.replace(old, new) without a count
ReplaceAll(s, old, new) ==
    LET i == Find(s, old) IN
    IF i = 0 \/ old = <<>> THEN s
    ELSE SubSeq(s, 1, i - 1) \o new
            \o ReplaceAll(SubSeq(s, i + Len(old), Len(s)), old, new)

\* a patch applied to every occurrence of the command
ApplyFixEverywhere(script, cmd, fixed) == ReplaceAll(script, cmd, fixed)

\* line 712
ApplyFix(script, cmd, fixed) == ReplaceFirst(script, cmd, fixed)

----------------------------------------------------------------------------
(* Reports, logs and statistics *)

RECURSIVE Count(_, _)
\* len([x for x in s if x == v])
Count(s, v) ==
    IF s = <<>> THEN 0
    ELSE (IF Head(s) = v THEN 1 ELSE 0) + Count(Tail(s), v)

\* str.capitalize() on the outcome words
Capitalize(w) ==
    CASE w \in {"PASSED", "passed"} -> "Passed"
      [] w \in {"FAILED", "failed"} -> "Failed"
      [] w \in {"SKIPPED", "skipped"} -> "Skipped"
      [] w \in {"ERROR", "error"} -> "Error"
      [] w = "XPASS" -> "Xpass"
      [] w = "XFAIL" -> "Xfail"
      [] OTHER -> w

\* the number of test functions of a script
NumTests(script) == Cardinality({i \in 1..Len(script) : script[i] \in TestDefs})

\* the sessions pytest can have had on a script when it exits with rc: at most
\* one outcome per test function, and rc 0 exactly when something ran and
\* nothing failed
SessionsFor(script, rc) ==
    {o \in SeqsUpTo(Outcomes, NumTests(script)) :
        (rc = 0) <=> (o # <<>> /\ \A i \in 1..Len(o) : o[i] \in {"passed", "skipped"})}

\* report.json of a session, as the code reads it; some plugin versions omit "tests"
ReportJson(session, with_tests) ==
    [summary |-> [total |-> Len(session),
                  passed |-> Count(session, "passed"),
                  failed |-> Count(session, "failed"),
                  errors |-> Count(session, "error")],
     tests |-> IF with_tests THEN session ELSE <<>>]

NoReport == ReportJson(<<>>, FALSE)

ReportsFor(script, rc) ==
    {ReportJson(o, w) : o \in SessionsFor(script, rc), w \in BOOLEAN}

\* the per-test lines of the verbose output that per_test_pattern matches
VerboseOutputs(script) == SeqsUpTo(VerboseWords, NumTests(script))

\* the word pytest -v prints for an outcome
Upper(o) ==
    CASE o = "passed" -> "PASSED"
      [] o = "failed" -> "FAILED"
      [] o = "skipped" -> "SKIPPED"
      [] o = "error" -> "ERROR"
      [] OTHER -> o

RECURSIVE IsSubsequence(_, _)
IsSubsequence(s, t) ==
    IF s = <<>> THEN TRUE
    ELSE IF t = <<>> THEN FALSE
    ELSE IF Head(s) = Head(t) THEN IsSubsequence(Tail(s), Tail(t))
    ELSE IsSubsequence(s, Tail(t))

\* the matched lines a session can leave in stdout: with --capture=no the
\* tests' own output can break a line, so some or none of them may match
VerboseOf(script, o) ==
    {v \in VerboseOutputs(script) :
        IsSubsequence(v, [i \in 1..Len(o) |-> Upper(o[i])])}

\* logs_list built from the lines matched in stdout
ParsedLogs(verbose) ==
    [i \in 1..Len(verbose) |-> [action |-> i, result |-> Capitalize(verbose[i])]]

\* logs_list built from report["tests"]
ReportLogs(report) ==
    [i \in 1..Len(report.tests) |-> [action |-> i, result |-> Capitalize(report.tests[i])]]

Results(logs) == [i \in 1..Len(logs) |-> logs[i].result]

\* statistics that count as failed the entries "Failed" and "Error" only
ParsedStatsFailuresOnly(logs) ==
    [total |-> Len(logs),
     passed |-> Count(Results(logs), "Passed"),
     failed |-> Count(Results(logs), "Failed") + Count(Results(logs), "Error")]

\* stats computed from parsed logs
ParsedStats(logs) ==
    LET total == Len(logs)
        passed == Count(Results(logs), "Passed")
    IN [total |-> total, passed |-> passed, failed |-> total - passed]

\* the single-entry dummy summary
DummyStats(rc) ==
    [total |-> 1,
     passed |-> IF rc = 0 THEN 1 ELSE 0,
     failed |-> IF rc # 0 THEN 1 ELSE 0]

\* stats built from the report's summary
ReportStats(report) ==
    [total |-> report.summary.total,
     passed |-> report.summary.passed,
     failed |-> report.summary.failed + report.summary.errors]

NoStats == [total |-> 0, passed |-> 0, failed |-> 0]

\* the suite-level log entry
SuiteLog(failed) ==
    <<[action |-> 0, result |-> IF failed = 0 THEN "Passed" ELSE "Failed"]>>

ResultKeys == {"report", "healing_attempts", "logs", "stats", "final_stdout", "final_stderr"}

\* the fallback result when report.json is missing
FallbackResult(res, verbose, healing) ==
    LET logs == ParsedLogs(verbose)
        stats == IF logs # <<>> THEN ParsedStats(logs) ELSE DummyStats(res.returncode)
    IN [status |-> 200,
        keys |-> ResultKeys,
        report |-> [summary |-> [total |-> stats.total, passed |-> stats.passed,
                                 failed |-> stats.failed, errors |-> 0],
                    tests |-> <<>>],
        report_by |-> 0,
        healing_attempts |-> healing,
        logs |-> IF logs # <<>> THEN logs ELSE SuiteLog(stats.failed),
        stats |-> stats,
        stdout |-> res.id,
        stderr |-> res.id]

\* run_standard_test's result when report.json exists
StandardReportResult(res, report, verbose) ==
    LET from_report == ReportLogs(report)
        parsed == IF from_report = <<>> THEN ParsedLogs(verbose) ELSE <<>>
        logs == IF from_report # <<>> THEN from_report ELSE parsed
        stats == IF from_report = <<>> /\ parsed # <<>>
                 THEN ParsedStats(parsed)
                 ELSE ReportStats(report)
    IN [status |-> 200,
        keys |-> ResultKeys,
        report |-> report,
        report_by |-> res.id,
        healing_attempts |-> <<>>,
        logs |-> IF logs # <<>> THEN logs ELSE SuiteLog(report.summary.failed),
        stats |-> stats,
        stdout |-> res.id,
        stderr |-> res.id]

\* run_script's result when report.json exists
FullFlowReportResult(res, report, by, healing) ==
    [status |-> 200,
     keys |-> {"report", "healing_attempts", "final_stdout", "final_stderr"},
     report |-> report,
     report_by |-> by,
     healing_attempts |-> healing,
     logs |-> <<>>,
     stats |-> NoStats,
     stdout |-> res.id,
     stderr |-> res.id]

\* run_script's answer when the last run failed and left no report
NoReportError(res, healing) ==
    [status |-> 400,
     keys |-> {"error", "details", "stdout", "stderr", "healing_attempts"},
     report |-> NoReport,
     report_by |-> 0,
     healing_attempts |-> healing,
     logs |-> <<>>,
     stats |-> NoStats,
     stdout |-> res.id,
     stderr |-> res.id]

\* the outer `except Exception` of run_script
ExceptionResponse ==
    [status |-> 500,
     keys |-> {"error", "details"},
     report |-> NoReport,
     report_by |-> 0,
     healing_attempts |-> <<>>,
     logs |-> <<>>,
     stats |-> NoStats,
     stdout |-> 0,
     stderr |-> 0]

NoResponse ==
    [status |-> 0,
     keys |-> {},
     report |-> NoReport,
     report_by |-> 0,
     healing_attempts |-> <<>>,
     logs |-> <<>>,
     stats |-> NoStats,
     stdout |-> 0,
     stderr |-> 0]

----------------------------------------------------------------------------
(* The handler *)

Unbound == [id |-> 0, returncode |-> 0, text |-> <<>>]

\* the output text of a passing run
PassText == <<"1 passed">>

\* executions one run of the model may make: one more than the configured
\* budget, so that the guard never binds while the budget is kept
RunCap == manual_retries + max_healing_retries + 2

\* data.get("execution_mode", "full_flow")
ModeOfDefaultFullFlow(requested) ==
    IF requested = "absent" THEN "full_flow" ELSE requested

\* a mode read without regard to case
ModeOfCaseInsensitive(requested) ==
    CASE requested = "absent" -> "specific_tests"
      [] requested = "Full_Flow" -> "full_flow"
      [] OTHER -> requested

\* data.get("execution_mode", "specific_tests")
ModeOf(requested) == IF requested = "absent" THEN "specific_tests" ELSE requested

\* lines 634-638: the text written to test_script.py and run by the attempt
\* that runs the live script `live`
EnhancedScript(live) == add_dom_dumping_to_script(live)

\* a loop that goes on with the instrumented text
LiveScriptInstrumented(live, enhanced_script) == enhanced_script

\* lines 634-638: the instrumented text is bound to enhanced_script and written
\* to the file; script_content stays what it was
LiveScript(live, enhanced_script) == live

\* a directory that outlives its `with` block
CleanUpNever(dir) == dir

\* leaving `with tempfile.TemporaryDirectory()`, by return or by exception
CleanUp(dir) == IF dir = "present" THEN "removed" ELSE dir

\* no pure function has been called
NoCall == [fn |-> "none", arg |-> <<>>, first |-> <<>>, ret |-> <<>>]

\* the names mkdtemp can give a directory
DirNames == {"tmp1", "tmp2", "tmp3"}

\* a name under which nothing exists
Absent == [exists |-> FALSE, test_script |-> <<>>]

\* no directory exists
NoDirs == [d \in DirNames |-> Absent]

\* the concurrent requests
Requests == {1, 2}

\* an invocation that has not started
NotStarted == [at |-> "idle", temp_dir |-> "none", script_content |-> <<>>,
               healing_attempts |-> <<>>, attempt |-> 0, returncode |-> 0,
               executed |-> [file |-> <<>>, live |-> <<>>]]

Init ==
    /\ pc = "recv"
    /\ execution_mode \in ExecutionModes
    /\ manual_retries \in -1..MaxManual
    /\ max_healing_retries \in -1..MaxHealing
    /\ script_content \in Scripts
    /\ attempt = 0
    /\ result = Unbound
    /\ healing_attempts = <<>>
    /\ dom_file = "none"
    /\ report_file = "none"
    /\ runs = <<>>
    /\ advisor_calls = 0
    /\ waits = 0
    /\ stop = "none"
    /\ response = NoResponse
    /\ temp_dir = "absent"
    /\ failing_command = <<>>
    /\ last_session = <<>>
    /\ call = NoCall
    /\ tmp_root = NoDirs
    /\ invocations = [r \in Requests |-> NotStarted]

\* the handler returns: the temporary directory goes with all its files
Return(resp) ==
    /\ response' = resp
    /\ temp_dir' = CleanUp("present")
    /\ dom_file' = (IF CleanUp("present") = "removed" THEN "none" ELSE dom_file)
    /\ report_file' = (IF CleanUp("present") = "removed" THEN "none" ELSE report_file)
    /\ pc' = "done"

\* lines 603-607 and run_standard_test: one execution of the script as given
\* in a temporary directory of its own, then the result built from
\* report.json or from the verbose output
RunStandardTest ==
    /\ pc = "recv"
    /\ ModeOf(execution_mode) # "full_flow"
    /\ \E rc \in {0, 1}, wrote \in BOOLEAN, with_tests \in BOOLEAN :
         \E o \in SessionsFor(script_content, rc) :
            \E verbose \in VerboseOf(script_content, o) :
               LET res == [id |-> 1, returncode |-> rc,
                           text |-> IF rc = 0 THEN PassText ELSE <<"E", "TimeoutError">>]
               IN /\ result' = res
                  /\ runs' = Append(runs, [script |-> script_content, returncode |-> rc,
                                           file |-> "script_content"])
                  /\ last_session' = o
                  /\ Return(IF wrote
                            THEN StandardReportResult(res, ReportJson(o, with_tests), verbose)
                            ELSE FallbackResult(res, verbose, <<>>))
    /\ stop' = "strict"
    /\ UNCHANGED <<execution_mode, manual_retries, max_healing_retries, failing_command,
                   script_content,
                   attempt, healing_attempts, advisor_calls, waits>>
    /\ UNCHANGED aux

\* a file of the temporary directory that the next run does not write
Aged(file) == IF file = "none" THEN "none" ELSE "stale"

\* the runs a file found in state `file` after the last run can come from
WritersOf(file, n) ==
    CASE file = "fresh" -> {n}
      [] file = "stale" -> 1..(n - 1)
      [] OTHER -> {}

\* lines 609-630: create the temporary directory and enter the retry loop
StartFullFlow ==
    /\ pc = "recv"
    /\ ModeOf(execution_mode) = "full_flow"
    /\ temp_dir' = "present"
    /\ attempt' = 0
    /\ pc' = "loop"
    /\ UNCHANGED <<execution_mode, manual_retries, max_healing_retries, failing_command,
                   script_content,
                   result, healing_attempts, dom_file, report_file, runs,
                   advisor_calls, waits, stop, response, last_session>>
    /\ UNCHANGED aux

\* lines 630-651: instrument the live script, write it, run pytest on it.
\* A failing run may dump the DOM, truncate the dump file, or leave it alone;
\* pytest may or may not write report.json. Files of earlier attempts stay.
ExecuteAttempt ==
    /\ pc = "loop"
    /\ InRange(attempt, total_attempts(manual_retries, max_healing_retries))
    /\ Len(runs) < RunCap
    /\ \E rc \in {0, 1}, wrote \in BOOLEAN, dump \in {"dumped", "truncated", "untouched"} :
         \E text \in (IF rc = 0 THEN {PassText} ELSE OutputTexts) :
            /\ rc = 0 => dump = "untouched"
            /\ result' = [id |-> Len(runs) + 1, returncode |-> rc, text |-> text]
            /\ runs' = Append(runs, [script |-> script_content, returncode |-> rc,
                                     file |-> "enhanced_script"])
            /\ dom_file' = CASE dump = "dumped" -> "fresh"
                             [] dump = "truncated" -> "none"
                             [] OTHER -> Aged(dom_file)
            /\ report_file' = IF wrote THEN "fresh" ELSE Aged(report_file)
    /\ script_content' = LiveScript(script_content, EnhancedScript(script_content))
    /\ pc' = "ran"
    /\ UNCHANGED <<execution_mode, manual_retries, max_healing_retries, failing_command,
                   attempt, healing_attempts, advisor_calls, waits, stop, response,
                   temp_dir, last_session>>
    /\ UNCHANGED aux

\* the for loop has no attempt left
LoopExhausted ==
    /\ pc = "loop"
    /\ ~InRange(attempt, total_attempts(manual_retries, max_healing_retries))
    /\ stop' = "exhausted"
    /\ pc' = "report"
    /\ UNCHANGED <<execution_mode, manual_retries, max_healing_retries, failing_command,
                   script_content,
                   attempt, result, healing_attempts, dom_file, report_file, runs,
                   advisor_calls, waits, response, temp_dir, last_session>>
    /\ UNCHANGED aux

\* lines 652-656
Succeed ==
    /\ pc = "ran"
    /\ IsSuccess(result.returncode)
    /\ stop' = "success"
    /\ pc' = "report"
    /\ UNCHANGED <<execution_mode, manual_retries, max_healing_retries, failing_command,
                   script_content,
                   attempt, result, healing_attempts, dom_file, report_file, runs,
                   advisor_calls, waits, response, temp_dir, last_session>>
    /\ UNCHANGED aux

\* lines 657-659
MaxRetries ==
    /\ pc = "ran"
    /\ ~IsSuccess(result.returncode)
    /\ MaxRetriesReached(attempt, manual_retries, max_healing_retries)
    /\ stop' = "budget"
    /\ pc' = "report"
    /\ UNCHANGED <<execution_mode, manual_retries, max_healing_retries, failing_command,
                   script_content,
                   attempt, result, healing_attempts, dom_file, report_file, runs,
                   advisor_calls, waits, response, temp_dir, last_session>>
    /\ UNCHANGED aux

\* lines 663-668: sleep, then the same script again
ManualRetry ==
    /\ pc = "ran"
    /\ ~IsSuccess(result.returncode)
    /\ ~MaxRetriesReached(attempt, manual_retries, max_healing_retries)
    /\ IsManualRetry(attempt, manual_retries)
    /\ waits' = waits + 1
    /\ attempt' = NextAttempt(attempt)
    /\ pc' = "loop"
    /\ UNCHANGED <<execution_mode, manual_retries, max_healing_retries, failing_command,
                   script_content,
                   result, healing_attempts, dom_file, report_file, runs,
                   advisor_calls, stop, response, temp_dir, last_session>>
    /\ UNCHANGED aux

\* lines 669-678 and 721-725
Classify ==
    /\ pc = "ran"
    /\ ~IsSuccess(result.returncode)
    /\ ~MaxRetriesReached(attempt, manual_retries, max_healing_retries)
    /\ ~IsManualRetry(attempt, manual_retries)
    /\ IF IsRepairable(result.text)
       THEN pc' = "repair" /\ stop' = stop
       ELSE pc' = "report" /\ stop' = "unrepairable"
    /\ UNCHANGED <<execution_mode, manual_retries, max_healing_retries, failing_command,
                   script_content,
                   attempt, result, healing_attempts, dom_file, report_file, runs,
                   advisor_calls, waits, response, temp_dir, last_session>>
    /\ UNCHANGED aux

\* an exception leaves the `with` block and reaches the handler's
\* `except Exception` (lines 838-840)
Raise(why) ==
    /\ stop' = why
    /\ Return(ExceptionResponse)

\* lines 696-715: the advisor is asked; a fix is recorded and the script
\* patched. str.replace raises TypeError when the fix is not a string.
Heal(cmd, intent) ==
    /\ advisor_calls' = advisor_calls + 1
    /\ \E ai_fix \in AdvisorAnswers :
         IF HasFix(ai_fix)
         THEN /\ healing_attempts' =
                    RecordHealing(healing_attempts,
                                  HealingEntry(attempt, cmd, ai_fix.fixed_command,
                                               intent))
              /\ IF IsStr(ai_fix.fixed_command)
                 THEN /\ script_content' =
                            ApplyFix(script_content, cmd, ai_fix.fixed_command)
                      /\ attempt' = NextAttempt(attempt)
                      /\ pc' = "loop"
                      /\ stop' = stop
                      /\ UNCHANGED <<response, temp_dir, dom_file, report_file>>
                 ELSE /\ Raise("type_error")
                      /\ UNCHANGED <<script_content, attempt>>
         ELSE /\ pc' = "report"
              /\ stop' = "no_fix"
              /\ UNCHANGED <<healing_attempts, script_content, attempt, response,
                             temp_dir, dom_file, report_file>>

\* the repair phase gives up before the advisor is asked
GiveUp(why) ==
    /\ pc' = "report"
    /\ stop' = why
    /\ UNCHANGED <<healing_attempts, script_content, attempt, advisor_calls,
                   response, temp_dir, dom_file, report_file>>

\* lines 679-720: extract the failing command from the run's trace (its frames
\* are read here; traces with the same last match are extracted alike), read
\* the DOM dump, ask the advisor, patch. Reading an existing dump file may
\* raise (OSError, UnicodeDecodeError).
Repair ==
    /\ pc = "repair"
    /\ \E cmd \in FailingCommands :
       \E readable \in BOOLEAN :
         LET ctx == extract_failing_context(TraceNaming[cmd], script_content)
             dom_content == dom_file
         IN /\ failing_command' = ctx.failing_command
            /\ IF ~CommandLocated(ctx.failing_command)
               THEN readable /\ GiveUp("extraction")
               ELSE IF dom_file # "none" /\ ~readable
               THEN /\ Raise("dom_read_error")
                    /\ UNCHANGED <<healing_attempts, script_content, attempt,
                                   advisor_calls>>
               ELSE IF ~DomAvailable(dom_content)
               THEN readable /\ GiveUp("no_dom")
               ELSE Heal(ctx.failing_command, ctx.user_intent)
    /\ UNCHANGED <<execution_mode, manual_retries, max_healing_retries, result,
                   runs, waits, last_session>>
    /\ UNCHANGED aux

\* lines 726-840: the final reporting of run_script
FinalReport ==
    /\ pc = "report"
    /\ IF result.id = 0
       THEN /\ last_session' = last_session
            /\ IF report_file = "none"
               THEN Return(ExceptionResponse)
               ELSE FALSE
       ELSE \E o \in SessionsFor(runs[Len(runs)].script, result.returncode) :
              /\ last_session' = o
              /\ IF report_file = "none"
                 THEN IF result.returncode = 0
                      THEN \E verbose \in VerboseOf(runs[Len(runs)].script, o) :
                             Return(FallbackResult(result, verbose, healing_attempts))
                      ELSE Return(NoReportError(result, healing_attempts))
                 ELSE \E by \in WritersOf(report_file, Len(runs)), with_tests \in BOOLEAN :
                        \E report \in (IF by = Len(runs)
                                       THEN {ReportJson(o, with_tests)}
                                       ELSE ReportsFor(runs[by].script, runs[by].returncode)) :
                           Return(FullFlowReportResult(result, report, by, healing_attempts))
    /\ UNCHANGED <<execution_mode, manual_retries, max_healing_retries, failing_command,
                   script_content,
                   attempt, result, healing_attempts, runs, advisor_calls, waits, stop>>
    /\ UNCHANGED aux

Next ==
    \/ RunStandardTest
    \/ StartFullFlow
    \/ ExecuteAttempt
    \/ LoopExhausted
    \/ Succeed
    \/ MaxRetries
    \/ ManualRetry
    \/ Classify
    \/ Repair
    \/ FinalReport

Spec == Init /\ [][Next]_vars

\* the handler is one sequential thread: a step that can be taken is taken
LiveSpec == Spec /\ WF_vars(Next)

----------------------------------------------------------------------------
(* The pure functions, called one at a time on inputs of bounded size *)

\* the functions of one test: a header, and a body that is on the header's
\* line, or one statement, or two, or two after a blank line
FunctionTexts ==
    {<<hd>> \o body :
        hd \in PageOnlyDefs \cup {FixtureDef},
        body \in {<<" ", "pass">>,
                  <<"\n", " ", "page", ".a">>,
                  <<"\n", " ", "page", ".a", "\n", " ", "page", ".b">>}}

RECURSIVE ScriptsOf(_)
\* the scripts of n test functions
ScriptsOf(n) ==
    IF n = 0 THEN {<<>>}
    ELSE {f \o <<"\n">> \o s : f \in FunctionTexts, s \in ScriptsOf(n - 1)}

\* the scripts of at most max test functions
TestScripts(max) == UNION {ScriptsOf(n) : n \in 1..max}

\* no invocation is under way
HandlerIdle ==
    /\ pc = "idle"
    /\ execution_mode = "absent"
    /\ manual_retries = 0
    /\ max_healing_retries = 0
    /\ script_content = <<>>
    /\ attempt = 0
    /\ result = Unbound
    /\ healing_attempts = <<>>
    /\ dom_file = "none"
    /\ report_file = "none"
    /\ runs = <<>>
    /\ advisor_calls = 0
    /\ waits = 0
    /\ stop = "none"
    /\ response = NoResponse
    /\ temp_dir = "absent"
    /\ failing_command = <<>>
    /\ last_session = <<>>

PureInit ==
    /\ HandlerIdle
    /\ call = NoCall
    /\ tmp_root = NoDirs
    /\ invocations = [r \in Requests |-> NotStarted]

\* line 634: the script is instrumented
CallAddDomDumping ==
    /\ call = NoCall
    /\ \E script \in TestScripts(MaxFuncs) \cup Scripts :
          call' = [fn |-> "add_dom_dumping_to_script", arg |-> script, first |-> <<>>,
                   ret |-> add_dom_dumping_to_script(script)]
    /\ UNCHANGED <<handler, tmp_root, invocations>>

\* line 357: a generated script is sanitised
CallSanitize ==
    /\ call = NoCall
    /\ \E script \in GeneratedScripts(MaxPieces) :
          call' = [fn |-> "sanitize_playwright_script", arg |-> script, first |-> <<>>,
                   ret |-> sanitize_playwright_script(script)]
    /\ UNCHANGED <<handler, tmp_root, invocations>>

\* the sanitised script is sanitised once more
CallSanitizeAgain ==
    /\ call.fn = "sanitize_playwright_script"
    /\ call' = [fn |-> "sanitize_playwright_script twice", arg |-> call.arg,
                first |-> call.ret,
                ret |-> sanitize_playwright_script(call.ret)]
    /\ UNCHANGED <<handler, tmp_root, invocations>>

\* line 679: the failing command is looked for in a trace
CallExtract ==
    /\ call = NoCall
    /\ \E tb \in Tracebacks :
          \E script \in IntentScripts :
             call' = [fn |-> "extract_failing_context",
                      arg |-> [traceback |-> tb, original_script |-> script],
                      first |-> <<>>,
                      ret |-> extract_failing_context(tb, script)]
    /\ UNCHANGED <<handler, tmp_root, invocations>>

\* lines 1015-1097 and 727-814: report.json is missing and the result is built
\* from the lines of stdout that per_test_pattern matches
CallFallbackParse ==
    /\ call = NoCall
    /\ \E verbose \in SeqsUpTo(PerTestWords, MaxFuncs) :
          \E rc \in {0, 1} :
             call' = [fn |-> "fallback parsing",
                      arg |-> verbose,
                      first |-> <<>>,
                      ret |-> FallbackResult([id |-> 1, returncode |-> rc, text |-> <<>>],
                                             verbose, <<>>)]
    /\ UNCHANGED <<handler, tmp_root, invocations>>

PureNext ==
    \/ CallAddDomDumping
    \/ CallSanitize
    \/ CallSanitizeAgain
    \/ CallExtract
    \/ CallFallbackParse

PureSpec == PureInit /\ [][PureNext]_vars

----------------------------------------------------------------------------
(* Two /run_script invocations in full_flow mode, served by two threads *)

\* a directory creation that takes a name whether or not it is in use
AnyName(root) == DirNames

\* line 609, tempfile.TemporaryDirectory(): mkdtemp creates a directory under a
\* name that nothing exists under
UnusedNames(root) == {d \in DirNames : ~root[d].exists}

ConcInit ==
    /\ HandlerIdle
    /\ call = NoCall
    /\ tmp_root = NoDirs
    /\ invocations = [r \in Requests |-> NotStarted]

\* lines 596-598: the request's script becomes the invocation's script_content,
\* and its healing_attempts list starts empty
Receive(r) ==
    /\ invocations[r].at = "idle"
    /\ \E script \in Scripts :
          invocations' = [invocations EXCEPT ![r].at = "received",
                                             ![r].script_content = script,
                                             ![r].healing_attempts = <<>>]
    /\ UNCHANGED <<handler, call, tmp_root>>

\* lines 609-613: the invocation's temporary directory and the paths in it
MakeTempDir(r) ==
    /\ invocations[r].at = "received"
    /\ \E d \in UnusedNames(tmp_root) :
          /\ tmp_root' = [tmp_root EXCEPT ![d] = [exists |-> TRUE, test_script |-> <<>>]]
          /\ invocations' = [invocations EXCEPT ![r].at = "loop", ![r].temp_dir = d]
    /\ UNCHANGED <<handler, call>>

\* lines 634-638: the instrumented script is written to script_path
WriteScript(r) ==
    /\ invocations[r].at = "loop"
    /\ tmp_root' = [tmp_root EXCEPT ![invocations[r].temp_dir] =
                       [exists |-> TRUE,
                        test_script |-> EnhancedScript(invocations[r].script_content)]]
    /\ invocations' = [invocations EXCEPT ![r].at = "written"]
    /\ UNCHANGED <<handler, call>>

\* lines 639-651: pytest runs the file at script_path
RunScript(r) ==
    /\ invocations[r].at = "written"
    /\ \E rc \in {0, 1} :
          invocations' =
              [invocations EXCEPT
                  ![r].at = "ran",
                  ![r].returncode = rc,
                  ![r].executed = [file |-> tmp_root[invocations[r].temp_dir].test_script,
                                   live |-> invocations[r].script_content]]
    /\ UNCHANGED <<handler, call, tmp_root>>

\* lines 699-715: a fix is recorded and applied, and the loop goes on
Patch(r) ==
    /\ invocations[r].at = "ran"
    /\ invocations[r].returncode # 0
    /\ Len(invocations[r].healing_attempts) < MaxPatches
    /\ \E cmd \in {CmdA, CmdB} :
          invocations' =
              [invocations EXCEPT
                  ![r].at = "loop",
                  ![r].attempt = NextAttempt(invocations[r].attempt),
                  ![r].healing_attempts =
                      RecordHealing(invocations[r].healing_attempts,
                                    HealingEntry(invocations[r].attempt, cmd, CmdD,
                                                 PerformTheAction(cmd))),
                  ![r].script_content = ApplyFix(invocations[r].script_content, cmd, CmdD)]
    /\ UNCHANGED <<handler, call, tmp_root>>

\* the handler returns and the `with` block removes the directory
Finish(r) ==
    /\ invocations[r].at = "ran"
    /\ tmp_root' = [tmp_root EXCEPT ![invocations[r].temp_dir] = Absent]
    /\ invocations' = [invocations EXCEPT ![r].at = "done"]
    /\ UNCHANGED <<handler, call>>

ConcNext ==
    \E r \in Requests :
        \/ Receive(r)
        \/ MakeTempDir(r)
        \/ WriteScript(r)
        \/ RunScript(r)
        \/ Patch(r)
        \/ Finish(r)

ConcSpec == ConcInit /\ [][ConcNext]_vars

----------------------------------------------------------------------------
(* Properties *)

\* the request asks for the self-healing loop
FullFlow == execution_mode = "full_flow"

\* the request asks for anything else, or names no mode
StrictRequest == execution_mode # "full_flow"

\* the budgets are as the invocation contract has them: manual_retries
\* non-negative, max_healing_retries positive
ContractBudgets == manual_retries >= 0 /\ max_healing_retries >= 1

IsPrefix(s, t) == Len(s) <= Len(t) /\ SubSeq(t, 1, Len(s)) = s

\* the attempt fields of a healing list increase strictly along the list
AttemptsIncrease(list) ==
    \A i \in 1..Len(list) : \A j \in 1..Len(list) :
        i < j => list[i].attempt < list[j].attempt

\* the failure of the last run has reached the repair phase
InRepairPhase ==
    /\ pc = "ran"
    /\ result.returncode # 0
    /\ attempt >= manual_retries
    /\ attempt < manual_retries + max_healing_retries

\* C1: a full_flow run executes the test runner at most
\* 1 + manual_retries + max_healing_retries times (and not at all when that
\* sum is negative).
C1_BoundedAttempts ==
    FullFlow =>
        Len(runs) <= (IF 1 + manual_retries + max_healing_retries >= 0
                      THEN 1 + manual_retries + max_healing_retries
                      ELSE 0)

\* C1 witness: a finished run that used its whole budget of five executions.
C1_Witness ==
    /\ FullFlow
    /\ pc = "done"
    /\ manual_retries = 2
    /\ max_healing_retries = 2
    /\ Len(runs) = 5
    /\ stop = "budget"

\* C2: a healing entry is appended exactly when a fix was obtained and its
\* substitution was found and replaced in the current script: a step that
\* appends an entry found the entry's failing command in the script it
\* started from, and a step that patches the script appends an entry.
C2_RecordedIffApplied ==
    [][ ContractBudgets =>
          /\ (healing_attempts' # healing_attempts) =>
                Contains(script_content,
                         healing_attempts'[Len(healing_attempts')].failing_command)
          /\ (script_content' # script_content) =>
                Len(healing_attempts') = Len(healing_attempts) + 1
      ]_vars

\* C3: in strict mode a failing script is executed exactly once, the returned
\* healing list is empty and the Repair Advisor is never invoked, whatever the
\* retry budgets are.
C3_StrictModeIsolation ==
    StrictRequest =>
        /\ Len(runs) <= 1
        /\ advisor_calls = 0
        /\ waits = 0
        /\ healing_attempts = <<>>
        /\ pc = "done" =>
              /\ Len(runs) = 1
              /\ response.healing_attempts = <<>>
              /\ "healing_attempts" \in response.keys

\* C3 witness: a finished strict run of a failing script with both budgets at 2.
C3_Witness ==
    /\ StrictRequest
    /\ pc = "done"
    /\ result.returncode # 0
    /\ manual_retries = 2
    /\ max_healing_retries = 2
    /\ Len(runs) = 1

\* C4: every run reaches a terminal state (its response is returned), whatever
\* the outcomes, classifier results, extraction results and advisor answers.
C4_Terminates == <>(pc = "done")

\* C4 witness: a full_flow run that went through manual retries and two
\* repairs and has returned.
C4_Witness ==
    /\ FullFlow
    /\ pc = "done"
    /\ waits = 2
    /\ Len(healing_attempts) = 2
    /\ Len(runs) = 5

\* C5: a failure that reaches the repair phase with none of the repairable
\* signatures in its output ends the loop: the advisor is not invoked, the
\* script is not patched, and nothing is executed afterwards.
C5_UnrepairableAborts ==
    [][ /\ (InRepairPhase /\ result.text = <<"E", "ImportError">>) =>
              /\ pc' = "report"
              /\ stop' = "unrepairable"
              /\ advisor_calls' = advisor_calls
              /\ script_content' = script_content
              /\ healing_attempts' = healing_attempts
              /\ runs' = runs
        /\ stop = "unrepairable" =>
              /\ advisor_calls' = advisor_calls
              /\ script_content' = script_content
              /\ healing_attempts' = healing_attempts
              /\ runs' = runs
      ]_vars

\* C5 witness: a run aborted on an unrepairable failure of its third execution.
C5_Witness ==
    /\ stop = "unrepairable"
    /\ pc = "done"
    /\ Len(runs) = 3
    /\ result.text = <<"E", "ImportError">>

\* C6: the attempt fields of healing_attempts increase strictly in list order,
\* and the list only grows by appending: no entry is changed or removed.
C6_MonotonicHealingLog ==
    [][ /\ IsPrefix(healing_attempts, healing_attempts')
        /\ AttemptsIncrease(healing_attempts')
      ]_vars

\* C6 witness: a healing list of two entries.
C6_Witness ==
    /\ Len(healing_attempts) = 2
    /\ healing_attempts[1].attempt < healing_attempts[2].attempt

\* C7: the failing_command of every healing entry occurs verbatim in the
\* script version executed in the attempt whose failure triggered the entry.
C7_FailingCommandInScript ==
    ContractBudgets => \A i \in 1..Len(healing_attempts) :
        LET e == healing_attempts[i] IN
        /\ e.attempt \in 1..Len(runs)
        /\ Contains(runs[e.attempt].script, e.failing_command)

\* C8: whatever terminal state a full_flow run that executed the script ends
\* in, its response carries the last attempt's parsed or fallback per-test
\* results, the accumulated healing list and the last attempt's final stdout
\* and stderr.
C8_AlwaysReportsLastAttempt ==
    (FullFlow /\ ContractBudgets /\ pc = "done" /\ Len(runs) >= 1) =>
        /\ \/ "logs" \in response.keys /\ response.logs # <<>>
           \/ "report" \in response.keys /\ response.report_by = Len(runs)
        /\ "healing_attempts" \in response.keys
        /\ response.healing_attempts = healing_attempts
        /\ {"final_stdout", "final_stderr"} \subseteq response.keys
        /\ response.stdout = Len(runs)
        /\ response.stderr = Len(runs)

\* C9: every result that carries the stats counters has
\* total = passed + failed.
C9_StatsAddUp ==
    (pc = "done" /\ "stats" \in response.keys) =>
        response.stats.total = response.stats.passed + response.stats.failed

\* the first two attempts failed on the unchanged script and the third passed
ScenarioE ==
    /\ FullFlow
    /\ pc = "done"
    /\ manual_retries = 2
    /\ Len(runs) >= 3
    /\ runs[1].returncode # 0
    /\ runs[2].returncode # 0
    /\ runs[3].returncode = 0
    /\ runs[2].script = runs[1].script
    /\ runs[3].script = runs[1].script

\* C10 as stated: in scenario E the run makes exactly 3 executions and ends
\* with a healing list of length 1 whose entry has attempt index 3.
C10_ScenarioE_AsStated ==
    ScenarioE =>
        /\ Len(runs) = 3
        /\ Len(healing_attempts) = 1
        /\ healing_attempts[1].attempt = 3

\* C10 amended: in scenario E the run makes exactly 3 executions and ends with
\* an empty healing list, the third attempt being the second manual retry; with
\* manual_retries = 2 the first healing entry has attempt index 3 and follows
\* three failures of the unchanged script, and when the fourth execution (the
\* first after a fix) then succeeds the run ends with exactly 4 executions and
\* a healing list of length 1.
C10_ScenarioE ==
    /\ ScenarioE =>
          /\ Len(runs) = 3
          /\ healing_attempts = <<>>
          /\ advisor_calls = 0
          /\ waits = 2
    /\ (FullFlow /\ manual_retries = 2 /\ healing_attempts # <<>>) =>
          /\ healing_attempts[1].attempt = 3
          /\ Len(runs) >= 3
          /\ \A k \in 1..3 : runs[k].returncode # 0 /\ runs[k].script = runs[1].script
    /\ (FullFlow /\ pc = "done" /\ manual_retries = 2 /\ Len(runs) >= 4
            /\ runs[4].returncode = 0) =>
          /\ Len(runs) = 4
          /\ Len(healing_attempts) = 1
          /\ healing_attempts[1].attempt = 3

\* C10 witness: scenario E has happened.
C10_Witness ==
    /\ ScenarioE
    /\ max_healing_retries = 2
    /\ Len(runs) = 3
    /\ stop = "success"

\* the passed counter a result reports: that of its stats or, for a result
\* without stats, of its report's summary; -1 when it carries neither
ReportedPassed(resp) ==
    IF "stats" \in resp.keys THEN resp.stats.passed
    ELSE IF "report" \in resp.keys THEN resp.report.summary.passed
    ELSE -1

\* the failed counter a result reports, likewise
ReportedFailed(resp) ==
    IF "stats" \in resp.keys THEN resp.stats.failed
    ELSE IF "report" \in resp.keys THEN resp.report.summary.failed
    ELSE -1

\* attempt 1 of a run with manual_retries = 0 and max_healing_retries = 1 failed
\* repairably, its command was extracted, its DOM dump read and a fix returned
ScenarioB ==
    /\ FullFlow
    /\ manual_retries = 0
    /\ max_healing_retries = 1
    /\ Len(runs) >= 1
    /\ runs[1].returncode # 0
    /\ Len(healing_attempts) >= 1
    /\ IsStr(healing_attempts[1].fixed_command)

\* C11: in scenario B the patched script is executed as attempt 2, and when
\* attempt 2 succeeds (its one test passes) the run ends with exactly 2
\* executions, a healing list of length 1 and a result reporting passed = 1.
C11_ScenarioB ==
    ScenarioB =>
        /\ healing_attempts[1].attempt = 1
        /\ pc # "loop" =>
              /\ Len(runs) = 2
              /\ runs[2].script =
                    ApplyFix(runs[1].script, healing_attempts[1].failing_command,
                             healing_attempts[1].fixed_command)
        /\ (pc = "done" /\ runs[2].returncode = 0 /\ last_session = <<"passed">>) =>
              /\ Len(runs) = 2
              /\ Len(healing_attempts) = 1
              /\ response.healing_attempts = healing_attempts
              /\ ReportedPassed(response) = 1

\* C12: with manual_retries = 0, when attempt 1 fails repairably and the
\* advisor returns no fix, nothing is executed after attempt 1, the healing
\* list is empty and the returned result reports failed = 1.
C12_ScenarioC ==
    (FullFlow /\ manual_retries = 0 /\ max_healing_retries >= 1
        /\ stop = "no_fix" /\ attempt = 0) =>
        /\ Len(runs) = 1
        /\ advisor_calls = 1
        /\ healing_attempts = <<>>
        /\ (pc = "done" /\ last_session = <<"failed">>) =>
              /\ response.healing_attempts = <<>>
              /\ ReportedFailed(response) = 1

\* C13: a failure that reaches the repair phase while the DOM dump file is
\* missing or empty ends the loop: the advisor is not invoked, the script and
\* the healing list stay as they are, and nothing is executed afterwards.
C13_NoDomAborts ==
    [][ /\ (pc = "repair" /\ dom_file = "none") =>
              /\ pc' = "report"
              /\ stop' \in {"no_dom", "extraction"}
              /\ advisor_calls' = advisor_calls
              /\ script_content' = script_content
              /\ healing_attempts' = healing_attempts
              /\ runs' = runs
        /\ stop = "no_dom" =>
              /\ advisor_calls' = advisor_calls
              /\ script_content' = script_content
              /\ healing_attempts' = healing_attempts
              /\ runs' = runs
      ]_vars

\* C13 witness: a run aborted for want of a DOM dump after an assertion error,
\* with no advisor call.
C13_Witness ==
    /\ pc = "done"
    /\ stop = "no_dom"
    /\ result.text = <<"E", "AssertionError">>
    /\ failing_command # <<>>
    /\ advisor_calls = 0

\* C14: once an execution of a full_flow run returns success the loop stops:
\* no execution, wait, advisor call or patch follows it; a script that passes
\* on the first attempt gives exactly 1 execution and an empty healing list.
C14_SuccessStops ==
    [][ FullFlow =>
          /\ (pc = "ran" /\ result.returncode = 0) =>
                /\ pc' = "report"
                /\ stop' = "success"
          /\ stop = "success" =>
                /\ runs' = runs
                /\ waits' = waits
                /\ advisor_calls' = advisor_calls
                /\ script_content' = script_content
                /\ healing_attempts' = healing_attempts
          /\ (Len(runs') >= 1 /\ runs'[1].returncode = 0) =>
                /\ Len(runs') = 1
                /\ healing_attempts' = <<>>
                /\ waits' = 0
      ]_vars

\* C14 witness: a run with both budgets at 2 that passed at once and returned.
C14_Witness ==
    /\ FullFlow
    /\ pc = "done"
    /\ stop = "success"
    /\ manual_retries = 2
    /\ max_healing_retries = 2
    /\ Len(runs) = 1
    /\ healing_attempts = <<>>

\* the last run failed with none of the repairable signatures in its output
UnrepairableFailure ==
    /\ FullFlow
    /\ pc = "ran"
    /\ result.returncode # 0
    /\ ~IsRepairable(result.text)

\* C15 as stated: an attempt that fails unrepairably aborts the run at once,
\* whatever manual_retries is.
C15_UnrepairableAborts_AsStated ==
    [][ (UnrepairableFailure /\ ContractBudgets) => pc' = "report" ]_vars

\* C15 amended: an unrepairable failure aborts the run at once only when the
\* attempt is past the manual retries (index >= manual_retries) or is the last
\* permitted one; an attempt with index < manual_retries that fails is retried
\* on the unchanged script after the wait, whatever its failure is.
C15_UnrepairableAborts ==
    [][ /\ UnrepairableFailure =>
              IF attempt < manual_retries /\ attempt < manual_retries + max_healing_retries
              THEN /\ pc' = "loop"
                   /\ attempt' = attempt + 1
                   /\ waits' = waits + 1
                   /\ script_content' = script_content
                   /\ stop' = stop
              ELSE /\ pc' = "report"
                   /\ stop' \in {"unrepairable", "budget"}
        /\ (FullFlow /\ stop \in {"unrepairable", "budget"}) => runs' = runs
      ]_vars

\* C15 witness: an import error in the first attempt has been answered with a
\* manual retry.
C15_Witness ==
    /\ FullFlow
    /\ pc = "loop"
    /\ attempt = 1
    /\ waits = 1
    /\ result.returncode # 0
    /\ result.text = <<"E", "ImportError">>

\* C16: when no failing command is located in the trace, the loop stops: the
\* advisor is not invoked, the script is not patched, no healing entry is
\* recorded and nothing is executed afterwards.
C16_ExtractionFailureAborts ==
    [][ /\ (pc = "repair" /\ failing_command' = <<>>) =>
              /\ pc' = "report"
              /\ stop' = "extraction"
              /\ advisor_calls' = advisor_calls
              /\ script_content' = script_content
              /\ healing_attempts' = healing_attempts
              /\ runs' = runs
        /\ stop = "extraction" =>
              /\ advisor_calls' = advisor_calls
              /\ script_content' = script_content
              /\ healing_attempts' = healing_attempts
              /\ runs' = runs
      ]_vars

\* C16 witness: a run aborted because no command was located, although a DOM
\* dump was there.
C16_Witness ==
    /\ pc = "report"
    /\ stop = "extraction"
    /\ failing_command = <<>>
    /\ dom_file = "fresh"
    /\ advisor_calls = 0

\* C17: whatever the advisor's answer is, the request either yields a fixed
\* command that is recorded and applied, or the no-fix signal: the loop stops
\* with the script and the healing list unchanged, and the run returns a
\* result, not the handler's generic error.
C17_AdvisorFailureIsNoFix ==
    [][ ContractBudgets =>
          /\ advisor_calls' = advisor_calls + 1 =>
                \/ /\ pc' = "loop"
                   /\ Len(healing_attempts') = Len(healing_attempts) + 1
                \/ /\ pc' = "report"
                   /\ stop' = "no_fix"
                   /\ script_content' = script_content
                   /\ healing_attempts' = healing_attempts
          /\ (pc' = "done" /\ stop' \in {"no_fix", "type_error"}) =>
                response' # ExceptionResponse
      ]_vars

\* C18: a run in which reading the DOM dump file raised still ends with the
\* normal final report, which carries the healing attempts accumulated so far.
C18_ComponentExceptionDegraded ==
    (ContractBudgets /\ pc = "done" /\ stop = "dom_read_error") =>
        /\ response # ExceptionResponse
        /\ "healing_attempts" \in response.keys
        /\ response.healing_attempts = healing_attempts

\* a result is made of per-test entries, or of the one suite-level entry
\* whose outcome follows the return code
BestEffortLogs(resp, rc) ==
    /\ resp.status = 200
    /\ "logs" \in resp.keys
    /\ resp.logs # <<>>
    /\ \/ \A i \in 1..Len(resp.logs) : resp.logs[i].action # 0
       \/ resp.logs = SuiteLog(IF rc = 0 THEN 0 ELSE 1)

\* C19: when report.json is missing after the last attempt the run returns
\* the per-test results parsed from the verbose output or, without any, one
\* suite-level result derived from the return code; in full_flow mode as in
\* strict mode, for failing as for passing return codes.
C19_MissingReportFallback ==
    [][ ContractBudgets =>
          /\ (pc = "report" /\ report_file = "none" /\ result.id # 0) =>
                BestEffortLogs(response', result.returncode)
          /\ (pc = "recv" /\ pc' = "done" /\ response'.report_by = 0) =>
                BestEffortLogs(response', result'.returncode)
      ]_vars

\* C20: the files of a run exist only while its temporary directory does, the
\* script is run from that directory, and the directory is gone once the run
\* has returned, whichever way it ended.
C20_TempDirRemoved ==
    /\ (dom_file # "none" \/ report_file # "none") => temp_dir = "present"
    /\ (FullFlow /\ pc \notin {"recv", "done"}) => temp_dir = "present"
    /\ pc = "done" =>
          /\ temp_dir = "removed"
          /\ dom_file = "none"
          /\ report_file = "none"

\* C20 witness: a run that ended in the handler's exception response after a
\* DOM dump had been written, its directory removed.
C20_Witness ==
    /\ pc = "done"
    /\ stop = "dom_read_error"
    /\ response = ExceptionResponse
    /\ Len(healing_attempts) = 1
    /\ temp_dir = "removed"

\* C21: the DOM snapshot handed to the Repair Advisor for a failed attempt was
\* dumped by that attempt's own execution, never left behind by an earlier one.
C21_AdvisorSeesOwnDump ==
    [][ (ContractBudgets /\ advisor_calls' = advisor_calls + 1) =>
            /\ dom_file = "fresh"
            /\ result.id = Len(runs)
      ]_vars

\* the keys of the result contract
ContractKeys == {"logs", "stats", "healing_attempts", "final_stdout", "final_stderr"}

\* C22: every non-error result, of strict mode and of full_flow mode, with or
\* without report.json, carries the per-test log entries, the counters, the
\* healing attempts and the final stdout and stderr.
C22_ResultShape ==
    (pc = "done" /\ response.status = 200) =>
        ContractKeys \subseteq response.keys

\* a failed attempt inside the manual-retry budget
FailedManualAttempt ==
    /\ FullFlow
    /\ pc = "ran"
    /\ result.returncode # 0
    /\ attempt < manual_retries
    /\ attempt < manual_retries + max_healing_retries

\* C26: a failed attempt with index < manual_retries is followed by a wait and
\* the next iteration and by nothing else: script, healing list, extraction
\* result, advisor calls and the files stay as they are, and the next
\* execution runs the same script text.
C26_ManualRetryFrame ==
    [][ /\ FailedManualAttempt =>
              /\ pc' = "loop"
              /\ attempt' = attempt + 1
              /\ waits' = waits + 1
              /\ UNCHANGED <<script_content, healing_attempts, failing_command,
                             advisor_calls, stop, runs, result, dom_file,
                             report_file, response>>
        /\ (FullFlow /\ pc = "loop" /\ pc' = "ran" /\ 1 <= attempt
                /\ attempt <= manual_retries) =>
              /\ Len(runs') = Len(runs) + 1
              /\ runs'[Len(runs')].script = runs[Len(runs)].script
      ]_vars

\* C26 witness: the third execution of a run with two manual retries, on the
\* script of the first, with nothing extracted, asked or recorded so far.
C26_Witness ==
    /\ FullFlow
    /\ pc = "ran"
    /\ manual_retries = 2
    /\ waits = 2
    /\ Len(runs) = 3
    /\ runs[3].script = runs[1].script
    /\ healing_attempts = <<>>
    /\ advisor_calls = 0
    /\ failing_command = <<>>

\* C27: when the attempt with index manual_retries + max_healing_retries fails
\* the loop is left before classification, with no advisor call, patch or
\* healing entry, and the result reports that last attempt.
C27_LastAttemptAborts ==
    [][ ContractBudgets =>
          /\ (FullFlow /\ pc = "ran" /\ result.returncode # 0
                  /\ attempt = manual_retries + max_healing_retries) =>
                /\ pc' = "report"
                /\ stop' = "budget"
                /\ UNCHANGED <<script_content, healing_attempts, failing_command,
                               advisor_calls, runs>>
          /\ (pc = "report" /\ stop = "budget") =>
                /\ pc' = "done"
                /\ UNCHANGED <<script_content, healing_attempts, advisor_calls, runs>>
                /\ response'.stdout = Len(runs)
                /\ response'.stderr = Len(runs)
                /\ "report" \in response'.keys => response'.report_by = Len(runs)
      ]_vars

\* C28: a patch replaces the first occurrence of the failing command in the
\* current script by the fixed command, and nothing else: the text before it
\* and the text after it, later occurrences included, stay as they are.
C28_ReplacesFirstOccurrence ==
    [][ (healing_attempts' # healing_attempts /\ pc' = "loop") =>
            LET e == healing_attempts'[Len(healing_attempts')]
                old == e.failing_command
                new == e.fixed_command
                at == {i \in 1..Len(script_content) : OccursAt(script_content, old, i)}
            IN IF at = {}
               THEN script_content' = script_content
               ELSE \E i \in at :
                      /\ \A j \in at : i <= j
                      /\ Len(script_content') = Len(script_content) - Len(old) + Len(new)
                      /\ SubSeq(script_content', 1, i - 1) = SubSeq(script_content, 1, i - 1)
                      /\ SubSeq(script_content', i, i + Len(new) - 1) = new
                      /\ SubSeq(script_content', i + Len(new), Len(script_content'))
                            = SubSeq(script_content, i + Len(old), Len(script_content))
      ]_vars

\* C28 witness: a script with two occurrences of the failing command, of which
\* the first has been replaced and the second is still there.
C28_Witness ==
    /\ Len(healing_attempts) = 1
    /\ Len(runs) = 1
    /\ pc = "loop"
    /\ healing_attempts[1].failing_command = CmdA
    /\ healing_attempts[1].fixed_command = CmdD
    /\ runs[1].script = ScriptX
    /\ Find(script_content, CmdD) = Find(ScriptX, CmdA)
    /\ Contains(script_content, CmdA)

\* the header at position i of text r is followed by an opened try block
WrappedAt(r, i) ==
    \E j \in (i + 1)..Len(r) :
        /\ r[j] = "try:"
        /\ \A k \in (i + 1)..(j - 1) : r[k] \in Blank

\* C24: in the instrumented script every test function with a body of its own
\* lines, whatever its parameter list, has that body inside the DOM-dump
\* wrapper.
C24_EveryTestFunctionWrapped ==
    call.fn = "add_dom_dumping_to_script" =>
        \A i \in 1..(Len(call.ret) - 1) :
            (call.ret[i] \in TestDefs /\ call.ret[i + 1] = "\n") => WrappedAt(call.ret, i)

\* C25: sanitising a sanitised script changes nothing:
\* sanitize_playwright_script(sanitize_playwright_script(s)) equals
\* sanitize_playwright_script(s).
C25_SanitizeIdempotent ==
    call.fn = "sanitize_playwright_script twice" => call.ret = call.first

\* C25 witness: a script the first pass rewrote in each of its three ways (a
\* line break taken out of a locator call, a URL assertion converted, a page
\* parameter added) has gone through the second pass.
C25_Witness ==
    /\ call.fn = "sanitize_playwright_script twice"
    /\ call.ret = call.first
    /\ \/ call.arg = <<LocatorOpen, "\n", Close>> /\ call.first = <<LocatorOpen, Close>>
       \/ /\ call.arg = UrlContains \o <<"'a'", Close>>
          /\ call.first = UrlCompile \o <<"'a'", Close, Close>>
       \/ /\ call.arg = <<DefOpen, Close, ":">>
          /\ call.first = <<DefOpen, "page", Close, ":">>

\* the frames of trace tb with header form hdr whose source line is a page command
PageFrames(tb, hdr) ==
    {i \in 1..Len(tb) :
        /\ tb[i].hdr = hdr
        /\ LET line == LStrip(tb[i].src, WS) IN Len(line) >= 2 /\ line[1] = "page"}

\* the command of the last frame among those at positions S
CommandOfLast(tb, S) == Strip(tb[CHOOSE i \in S : \A j \in S : j <= i].src)

\* C30: extract_failing_context returns the command of the last frame the
\* primary pattern matches; when the primary pattern matches nothing, that of
\* the last frame the fallback pattern matches; and None only when neither
\* pattern matches.
C30_LastPrimaryMatch ==
    call.fn = "extract_failing_context" =>
        LET tb == call.arg.traceback
            primary == PageFrames(tb, "File")
            fallback == PageFrames(tb, "short")
        IN IF primary # {} THEN call.ret.failing_command = CommandOfLast(tb, primary)
           ELSE IF fallback # {} THEN call.ret.failing_command = CommandOfLast(tb, fallback)
           ELSE /\ call.ret.failing_command = <<>>
                /\ call.ret.user_intent = NoIntentFound

\* C30 witness: a trace with two primary matches, page.a in the outer frame and
\* page.c in the inner one, gave page.c.
C30_Witness ==
    /\ call.fn = "extract_failing_context"
    /\ call.arg.traceback = <<[hdr |-> "File", src |-> <<" ", "page", ".a">>],
                              [hdr |-> "File", src |-> <<" ", "page", ".c">>]>>
    /\ call.ret.failing_command = CmdC

\* the number of DOM-dump wrappers in a text
Wrappers(text) == Count(text, "except Exception as e:")

\* the `(page)` test functions of a text that have a body of their own lines
Wrappable(text) ==
    Cardinality({i \in 1..(Len(text) - 1) :
                    text[i] \in PageOnlyDefs /\ text[i + 1] = "\n"})

\* text `file` is script `live` with one wrapper for each of its wrappable
\* functions, opened right under the function's header
InstrumentedOnce(file, live) ==
    /\ Wrappers(file) = Wrappable(live)
    /\ \A i \in 1..(Len(file) - 1) :
          (file[i] \in PageOnlyDefs /\ file[i + 1] = "\n") => WrappedAt(file, i)

\* C29: the live script never contains the wrapper; the file of every attempt
\* is the instrumentation of the live script of that moment, with one wrapper
\* for each function and none twice; running an attempt leaves the live script
\* as it is, and a patch is applied to the text without wrappers.
C29_LiveScriptUninstrumented ==
    [][ FullFlow =>
          /\ Wrappers(script_content) = 0
          /\ Len(runs') = Len(runs) + 1 =>
                /\ runs'[Len(runs')].script = script_content
                /\ script_content' = script_content
                /\ InstrumentedOnce(EnhancedScript(script_content), script_content)
          /\ healing_attempts' # healing_attempts => Wrappers(script_content') = 0
      ]_vars

\* C29 witness: the second attempt of a run runs a patched script, and its
\* file has the one wrapper of the script's one function.
C29_Witness ==
    /\ FullFlow
    /\ pc = "ran"
    /\ Len(runs) = 2
    /\ Len(healing_attempts) = 1
    /\ runs[2].script # runs[1].script
    /\ runs[2].script = script_content
    /\ Wrappers(EnhancedScript(runs[2].script)) = 1
    /\ Wrappers(script_content) = 0

\* the invocation is between the creation of its directory and its return
Serving(r) == invocations[r].at \in {"loop", "written", "ran"}

\* C23: two invocations under way at the same time have different working
\* directories; what each executes is the instrumentation of its own live
\* script; and a step of one changes neither the script nor the healing list
\* of the other.
C23_InvocationsIsolated ==
    [][ /\ \A r \in Requests : \A q \in Requests \ {r} :
              /\ (Serving(r) /\ Serving(q)) =>
                    invocations[r].temp_dir # invocations[q].temp_dir
              /\ invocations'[r] # invocations[r] =>
                    /\ invocations'[q].script_content = invocations[q].script_content
                    /\ invocations'[q].healing_attempts = invocations[q].healing_attempts
        /\ \A r \in Requests :
              (invocations[r].at = "written" /\ invocations'[r].at = "ran") =>
                  invocations'[r].executed.file
                      = EnhancedScript(invocations[r].script_content)
      ]_vars

\* C23 witness: both invocations have run, each its own script in its own
\* directory, and each has then patched its script and written it again.
C23_Witness ==
    /\ \A r \in Requests :
          /\ invocations[r].at = "written"
          /\ Len(invocations[r].healing_attempts) = 1
    /\ invocations[1].script_content # invocations[2].script_content
    /\ invocations[1].executed.live = ScriptX
    /\ invocations[2].executed.live = ScriptY
    /\ invocations[1].temp_dir # invocations[2].temp_dir

\* the lines of the script that hold the command and nothing else
LinesOf(cmd, script) ==
    {i \in 1..Len(SplitLines(script)) : Strip(SplitLines(script)[i]) = cmd}

\* line j of the script is a comment line
IsCommentLine(script, j) ==
    LET l == Strip(SplitLines(script)[j]) IN l # <<>> /\ l[1] = "#"

\* the text of a comment line without its marker and the blanks around it
CommentText(l) == Strip(LStrip(Strip(l), {"#", " "}))

\* C31: for a located command the intent is the text of the nearest comment
\* line above the first script line that holds the command; it is
\* "Perform the action: " followed by the command when no comment line is
\* above that line or when no script line holds the command.
C31_IntentOfFirstOccurrence ==
    (call.fn = "extract_failing_context" /\ call.ret.failing_command # <<>>) =>
        LET cmd == call.ret.failing_command
            script == call.arg.original_script
            occ == LinesOf(cmd, script)
        IN IF occ = {}
           THEN call.ret.user_intent = PerformTheAction(cmd)
           ELSE \E i \in occ :
                  /\ \A k \in occ : i <= k
                  /\ IF \A j \in 1..(i - 1) : ~IsCommentLine(script, j)
                     THEN call.ret.user_intent = PerformTheAction(cmd)
                     ELSE \E j \in 1..(i - 1) :
                            /\ IsCommentLine(script, j)
                            /\ \A k \in (j + 1)..(i - 1) : ~IsCommentLine(script, k)
                            /\ call.ret.user_intent = CommentText(SplitLines(script)[j])

\* C31 witness: page.a is on two lines of the script, with "open" the nearest
\* comment above the first and "close" the nearest above the second, and the
\* intent is "open".
C31_Witness ==
    /\ call.fn = "extract_failing_context"
    /\ call.arg.original_script = ScriptV
    /\ call.ret.failing_command = CmdA
    /\ call.ret.user_intent = <<"open">>

\* C32: the self-healing loop is entered only when execution_mode is exactly
\* "full_flow"; for every other value, and without one, the script is executed
\* once as it was given, with no wait, no repair and no healing entry, and the
\* run returns from the strict path.
C32_OnlyFullFlowHeals ==
    /\ execution_mode # "full_flow" =>
          /\ pc \in {"recv", "done"}
          /\ stop \in {"none", "strict"}
          /\ Len(runs) <= 1
          /\ \A k \in 1..Len(runs) : runs[k].file = "script_content"
          /\ waits = 0
          /\ advisor_calls = 0
          /\ healing_attempts = <<>>
          /\ temp_dir # "present"
    /\ (pc \notin {"recv", "done"} \/ \E k \in 1..Len(runs) : runs[k].file = "enhanced_script")
          => execution_mode = "full_flow"

\* C32 witness: a request whose execution_mode differs from "full_flow" in
\* case only, with both budgets at 2, has run its failing script once, as it
\* was given, and returned.
C32_Witness ==
    /\ execution_mode = "Full_Flow"
    /\ pc = "done"
    /\ stop = "strict"
    /\ manual_retries = 2
    /\ max_healing_retries = 2
    /\ Len(runs) = 1
    /\ runs[1].returncode # 0
    /\ runs[1].file = "script_content"

\* the result consists of the one suite-level entry
SuiteLevel(resp) ==
    /\ "logs" \in resp.keys
    /\ Len(resp.logs) = 1
    /\ resp.logs[1].action = 0

\* C33: a synthesized suite-level entry agrees with the return code of the
\* test runner: it is "Passed" when the return code was 0 and "Failed"
\* otherwise, whether report.json was missing or was there without per-test
\* entries.
C33_SuiteOutcomeFollowsReturnCode ==
    (pc = "done" /\ SuiteLevel(response)) =>
        (response.logs[1].result = "Passed" <=> result.returncode = 0)

\* C34: a returned result with a non-empty healing list is the result of a
\* run whose last execution passed.
C34_HealedMeansPassed ==
    (pc = "done" /\ "healing_attempts" \in response.keys
        /\ response.healing_attempts # <<>>) =>
        /\ result.returncode = 0
        /\ runs[Len(runs)].returncode = 0

\* the first n executions ran the script of the request and failed
OriginalFailed(n) ==
    /\ Len(runs) >= n
    /\ \A k \in 1..n : runs[k].script = runs[1].script /\ runs[k].returncode # 0

\* C35: the phases of a full_flow run are ordered: a manual retry is taken
\* only while no advisor call has been made and no fix recorded; the advisor is
\* called only after 1 + manual_retries executions of the unmodified original
\* script have failed; and the wait happens only in a manual retry, which is
\* followed by an execution of the same script, never in the step that
\* patches the script.
C35_PhasesOrdered ==
    [][ FullFlow =>
          /\ waits' # waits =>
                /\ waits' = waits + 1
                /\ advisor_calls = 0
                /\ healing_attempts = <<>>
                /\ attempt < manual_retries
                /\ pc' = "loop"
                /\ UNCHANGED <<script_content, healing_attempts, advisor_calls>>
          /\ advisor_calls' # advisor_calls =>
                /\ attempt >= manual_retries
                /\ OriginalFailed(1 + manual_retries)
                /\ waits' = waits
                /\ waits = (IF manual_retries > 0 THEN manual_retries ELSE 0)
          /\ (script_content' # script_content \/ healing_attempts' # healing_attempts) =>
                waits' = waits
          /\ (pc = "loop" /\ pc' = "ran" /\ attempt > 0) =>
                IF attempt <= manual_retries
                THEN waits = attempt /\ healing_attempts = <<>>
                ELSE Len(healing_attempts) = attempt - waits
      ]_vars

\* C35 witness: a run with two manual retries has waited twice, then called
\* the advisor twice and is executing its fifth attempt on a patched script.
C35_Witness ==
    /\ FullFlow
    /\ manual_retries = 2
    /\ pc = "ran"
    /\ Len(runs) = 5
    /\ waits = 2
    /\ advisor_calls = 2
    /\ Len(healing_attempts) = 2
    /\ runs[3].script = runs[1].script
    /\ runs[5].script # runs[1].script

\* C36: when a full_flow run that executed at least one attempt has
\* returned, its executions number 1 + the manual retries taken + the entries
\* of healing_attempts.
C36_ExecutionsAccounted ==
    (FullFlow /\ pc = "done" /\ Len(runs) >= 1) =>
        Len(runs) = 1 + waits + Len(healing_attempts)

\* C37: with manual_retries >= 0 and max_healing_retries >= 0 the advisor is
\* called at most max_healing_retries times in a run, healing_attempts has at
\* most max_healing_retries entries, and the attempt number of every entry is
\* in manual_retries + 1 .. manual_retries + max_healing_retries.
C37_HealingBudget ==
    (FullFlow /\ manual_retries >= 0 /\ max_healing_retries >= 0) =>
        /\ advisor_calls <= max_healing_retries
        /\ Len(healing_attempts) <= max_healing_retries
        /\ \A i \in 1..Len(healing_attempts) :
              /\ manual_retries + 1 <= healing_attempts[i].attempt
              /\ healing_attempts[i].attempt <= manual_retries + max_healing_retries
        /\ pc = "done" => Len(response.healing_attempts) <= max_healing_retries

\* C37 witness: a run with budgets 2 and 2 has used its whole healing budget:
\* two advisor calls, two entries, for the attempts 3 and 4.
C37_Witness ==
    /\ FullFlow
    /\ pc = "done"
    /\ manual_retries = 2
    /\ max_healing_retries = 2
    /\ advisor_calls = 2
    /\ Len(healing_attempts) = 2
    /\ healing_attempts[1].attempt = 3
    /\ healing_attempts[2].attempt = 4
    /\ response.healing_attempts = healing_attempts

\* the lines of a verbose output whose outcome word is in S
LinesWith(verbose, S) == {i \in 1..Len(verbose) : verbose[i] \in S}

\* C38: when the fallback parsing matches per-test lines, total is the number
\* of matched lines, passed is the number of those with PASSED, and failed is
\* the number of all others (FAILED, ERROR, SKIPPED, XPASS, XFAIL), which is
\* total - passed; there is one log entry for each matched line.
C38_FallbackCounts ==
    (call.fn = "fallback parsing" /\ call.arg # <<>>) =>
        /\ call.ret.stats.total = Len(call.arg)
        /\ call.ret.stats.passed = Cardinality(LinesWith(call.arg, {"PASSED"}))
        /\ call.ret.stats.failed =
              Cardinality(LinesWith(call.arg, PerTestWords \ {"PASSED"}))
        /\ call.ret.stats.failed = call.ret.stats.total - call.ret.stats.passed
        /\ Len(call.ret.logs) = Len(call.arg)
        /\ call.ret.report.summary.passed = call.ret.stats.passed
        /\ call.ret.report.summary.failed = call.ret.stats.failed

\* C38 witness: an output of one passed and one skipped test gave total 2,
\* passed 1 and failed 1.
C38_Witness ==
    /\ call.fn = "fallback parsing"
    /\ call.arg = <<"PASSED", "SKIPPED">>
    /\ call.ret.stats = [total |-> 2, passed |-> 1, failed |-> 1]

\* budgets that leave the loop no attempt
NoAttemptBudgets == 1 + manual_retries + max_healing_retries <= 0

\* C39: a full_flow run whose budgets give 1 + manual_retries +
\* max_healing_retries <= 0 executes nothing, waits for nothing, calls no
\* advisor, and returns the handler's "Script execution failed" error instead
\* of a result.
C39_NoAttemptIsError ==
    (FullFlow /\ NoAttemptBudgets) =>
        /\ runs = <<>>
        /\ result = Unbound
        /\ advisor_calls = 0
        /\ waits = 0
        /\ healing_attempts = <<>>
        /\ pc = "done" =>
              /\ stop = "exhausted"
              /\ response = ExceptionResponse
              /\ response.status = 500
              /\ response.keys = {"error", "details"}

\* C39 witness: a run with manual_retries = -1 and max_healing_retries = 0 has
\* returned the error without an execution.
C39_Witness ==
    /\ FullFlow
    /\ pc = "done"
    /\ manual_retries = -1
    /\ max_healing_retries = 0
    /\ runs = <<>>
    /\ response.status = 500

====
